---- MODULE Spec2Model ----
(***************************************************************************)
(* A model of the av_weather Home Assistant integration: the API client    *)
(* (api.py), the METAR/TAF sensor entities (sensor.py) and the             *)
(* update_weather service with the entry setup/unload hooks (__init__.py). *)
(*                                                                         *)
(* Python values are tagged tuples so that values of different Python      *)
(* types can be compared: <<"none">>, <<"str", s>>, <<"num", n>>,          *)
(* <<"code", chars>> (a station identifier string, kept as its character   *)
(* codes so that str.upper() is computed), <<"list", seq>>, <<"rec", d>>.  *)
(* A dict is a function from its keys.                                     *)
(***************************************************************************)
EXTENDS Integers, Sequences, FiniteSets, TLC

\* ------------------------------------------------------------- bounds
MaxEntries == 2      \* config entry ids
MaxEnts == 4         \* sensor objects alive at once
MaxRefresh == 2      \* update_weather handlers running at once
SysEntries == 1      \* entries the whole-system specification sets up
SysSlots == 1        \* handlers the whole-system specification runs

\* ------------------------------------------------------ python values
None == <<"none">>
Str(s) == <<"str", s>>
Num(n) == <<"num", n>>
CodeStr(cs) == <<"code", cs>>
List(xs) == <<"list", xs>>
Rec(d) == <<"rec", d>>

Tag(v) == v[1]
IsNone(v) == Tag(v) = "none"

\* bool(v) as Python computes it for the values the provider can send
Truthy(v) ==
    CASE Tag(v) = "none" -> FALSE
      [] Tag(v) = "str" -> v[2] # ""
      [] Tag(v) = "num" -> v[2] # 0
      [] Tag(v) = "code" -> Len(v[2]) > 0
      [] Tag(v) = "list" -> Len(v[2]) > 0
      [] Tag(v) = "rec" -> DOMAIN v[2] # {}
      [] OTHER -> TRUE

EmptyDict == [k \in {} |-> None]
Get(d, k) == IF k \in DOMAIN d THEN d[k] ELSE None
GetDefault(d, k, dflt) == IF k \in DOMAIN d THEN d[k] ELSE dflt

\* ------------------------------------------------------- ICAO codes
\* characters by code point: 'A' = 65 .. 'Z' = 90, 'a' = 97 .. 'z' = 122
UpperChar(c) == IF c \in 97..122 THEN c - 32 ELSE c
Upper(cs) == [i \in DOMAIN cs |-> UpperChar(cs[i])]

NZAA == <<78, 90, 65, 65>>
NZWN == <<78, 90, 87, 78>>
ZZZZ == <<90, 90, 90, 90>>
nzaa == <<110, 122, 97, 97>>

FEED_METAR == "METAR"
FEED_TAF == "TAF"
Feeds == {FEED_METAR, FEED_TAF}

ICON_DEFAULT == "mdi:weather-partly-cloudy"
ICON_TAF == "mdi:weather-cloudy-clock"

\* --------------------------------------------------- time conversions
\* dt_util.parse_datetime on a str: a datetime ("ok", with its isoformat()),
\* None when the text does not match, ValueError for a matching text that
\* names no real date.
ParseDatetime(s) ==
    CASE s = "2024-01-09 23:00:00" -> <<"ok", "2024-01-09T23:00:00">>
      [] s = "2024-01-10T01:00:00Z" -> <<"ok", "2024-01-10T01:00:00+00:00">>
      [] s = "2024-13-45 00:00:00" -> <<"ValueError">>
      [] OTHER -> <<"nomatch">>

\* the value stored under observation_time (sensor.py 226-237)
ObservationTime(obs) ==
    IF Tag(obs) # "str"
    THEN obs                        \* TypeError, caught: the raw value is kept
    ELSE LET p == ParseDatetime(obs[2])
         IN IF p[1] = "ok" THEN Str(p[2]) ELSE obs

\* datetime.fromtimestamp(v, tz=UTC).isoformat(), or the raw value when the
\* conversion raises TypeError (a text instead of a number)
ValidTime(v) ==
    IF Tag(v) = "num" THEN <<"isoutc", v[2]>> ELSE v

\* ------------------------------------------------------ sensor entities
\* An entity object: _icao_code, its class (feed), its config entry, _data,
\* _attr_native_value, _attr_extra_state_attributes, _attr_icon, and whether
\* the entity platform holds it ("none", "added", "removed").
\* a variant that tells visual from instrument conditions only
CoarseFlightIcon(flight_category) ==
    IF flight_category \in {Str("VFR"), Str("MVFR")} THEN "mdi:weather-sunny"
    ELSE "mdi:weather-cloudy"

FlightIcon(flight_category) ==
    IF flight_category = Str("VFR") THEN "mdi:weather-sunny"
    ELSE IF flight_category = Str("MVFR") THEN "mdi:weather-partly-cloudy"
    ELSE IF flight_category = Str("IFR") THEN "mdi:weather-cloudy"
    ELSE IF flight_category = Str("LIFR") THEN "mdi:weather-fog"
    ELSE "mdi:weather-partly-cloudy"

CloudText(c) ==
    <<"fmt", GetDefault(c, "cover", Str("Unknown")), " at ",
      GetDefault(c, "base", Str("N/A")), " ft AGL">>

\* iterating clouds and calling c.get on each element raises unless clouds is
\* a list of dicts
CloudsRaise(clouds) ==
    \/ Tag(clouds) # "list"
    \/ \E i \in DOMAIN clouds[2] : Tag(clouds[2][i]) # "rec"

\* dict d after d[k] = val[k] for every k of keys
Assign(d, keys, val) ==
    [k \in (DOMAIN d) \cup keys |-> IF k \in keys THEN val[k] ELSE d[k]]

\* the latitude/longitude and elevation keys both classes add
HasPos(d) == ~IsNone(Get(d, "lat")) /\ ~IsNone(Get(d, "lon"))
PosKeys(d) ==
    (IF HasPos(d) THEN {"latitude", "longitude"} ELSE {})
    \cup (IF ~IsNone(Get(d, "elev")) THEN {"elevation_m"} ELSE {})

\* the keys assigned unconditionally under "Basic attributes", with the
\* field of the station object each one reads
MetarBasicKeys ==
    {"raw_report", "station_id", "temperature_c", "dewpoint_c", "wind_speed_kts",
     "wind_gust_kts", "wind_direction_deg", "visibility_mi", "altimeter_in_hg",
     "sea_level_pressure_mb", "flight_category"}
MetarBasicValue(d) ==
    [raw_report |-> Get(d, "rawOb"), station_id |-> Get(d, "icaoId"),
     temperature_c |-> Get(d, "temp"), dewpoint_c |-> Get(d, "dewp"),
     wind_speed_kts |-> Get(d, "wspd"), wind_gust_kts |-> Get(d, "wgst"),
     wind_direction_deg |-> Get(d, "wdir"), visibility_mi |-> Get(d, "visib"),
     altimeter_in_hg |-> Get(d, "altim"), sea_level_pressure_mb |-> None,
     flight_category |-> Get(d, "fltCat")]

\* a variant that builds on the attributes of the previous record when the
\* station object has no reportTime
StaleMetarAttrs(self, obs) ==
    IF Truthy(obs) THEN [observation_time |-> ObservationTime(obs)] ELSE self.attrs

\* the dict the observation-time branch assigns before the other keys
MetarFreshAttrs(self, obs) ==
    IF Truthy(obs) THEN [observation_time |-> ObservationTime(obs)] ELSE EmptyDict

\* a variant that appends the cloud layers to the list already stored
GrowingCloudCoverage(self, clouds) ==
    LET old == IF "cloud_coverage" \in DOMAIN self.attrs
               THEN self.attrs["cloud_coverage"][2] ELSE <<>>
    IN List(old \o [i \in DOMAIN clouds[2] |-> CloudText(clouds[2][i][2])])

\* the value stored under cloud_coverage
CloudCoverage(self, clouds) ==
    List([i \in DOMAIN clouds[2] |-> CloudText(clouds[2][i][2])])

\* the keys assigned after the basic ones, and their values
MetarLateKeys(d, clouds) ==
    (IF Truthy(clouds) THEN {"cloud_coverage"} ELSE {})
    \cup (IF Truthy(Get(d, "wxString")) THEN {"weather"} ELSE {})
    \cup PosKeys(d)
MetarLateValue(self, d, clouds) ==
    [k \in MetarLateKeys(d, clouds) |->
        CASE k = "cloud_coverage" -> CloudCoverage(self, clouds)
          [] k = "weather" -> Get(d, "wxString")
          [] k = "latitude" -> Get(d, "lat")
          [] k = "longitude" -> Get(d, "lon")
          [] k = "elevation_m" -> Get(d, "elev")]

\* MetarSensor._update_state: the entity after the call, and whether the call
\* raised (the assignments made before the raise stay)
MetarUpdateState(self) ==
    IF ~Truthy(self.data)
    THEN [ent |-> [self EXCEPT !.native = None, !.attrs = EmptyDict,
                               !.icon = ICON_DEFAULT],
          raised |-> FALSE]
    ELSE LET d == self.data[2]
             s1 == [self EXCEPT !.native = Get(d, "rawOb"),
                                !.icon = FlightIcon(Get(d, "fltCat"))]
             basic == Assign(MetarFreshAttrs(self, Get(d, "reportTime")),
                             MetarBasicKeys, MetarBasicValue(d))
             clouds == GetDefault(d, "clouds", List(<<>>))
         IN IF Truthy(clouds) /\ CloudsRaise(clouds)
            THEN [ent |-> [s1 EXCEPT !.attrs = basic], raised |-> TRUE]
            ELSE [ent |-> [s1 EXCEPT !.attrs =
                              Assign(basic, MetarLateKeys(d, clouds),
                                     MetarLateValue(self, d, clouds))],
                  raised |-> FALSE]

\* the dict literal TafSensor._update_state assigns before the other keys
TafFreshAttrs(self, d) ==
    [raw_forecast |-> Get(d, "rawTAF"), station_id |-> Get(d, "icaoId")]

\* the keys TafSensor._update_state adds to that dict, and their values
TafLateKeys(d) ==
    (IF Truthy(Get(d, "issueTime")) THEN {"issue_time"} ELSE {})
    \cup (IF Truthy(Get(d, "validTimeFrom")) THEN {"valid_time_from"} ELSE {})
    \cup (IF Truthy(Get(d, "validTimeTo")) THEN {"valid_time_to"} ELSE {})
    \cup PosKeys(d)
TafLateValue(d) ==
    [k \in TafLateKeys(d) |->
        CASE k = "issue_time" -> Get(d, "issueTime")
          [] k = "valid_time_from" -> ValidTime(Get(d, "validTimeFrom"))
          [] k = "valid_time_to" -> ValidTime(Get(d, "validTimeTo"))
          [] k = "latitude" -> Get(d, "lat")
          [] k = "longitude" -> Get(d, "lon")
          [] k = "elevation_m" -> Get(d, "elev")]

\* a variant whose no-data branch clears the state value only
TafKeepsAttrs(self) ==
    IF ~Truthy(self.data)
    THEN [ent |-> [self EXCEPT !.native = None], raised |-> FALSE]
    ELSE LET d == self.data[2]
         IN [ent |-> [self EXCEPT !.native = Get(d, "rawTAF"),
                                  !.attrs = Assign([raw_forecast |-> Get(d, "rawTAF"),
                                                    station_id |-> Get(d, "icaoId")],
                                                   TafLateKeys(d), TafLateValue(d))],
             raised |-> FALSE]

\* TafSensor._update_state
TafUpdateState(self) ==
    IF ~Truthy(self.data)
    THEN [ent |-> [self EXCEPT !.native = None, !.attrs = EmptyDict],
          raised |-> FALSE]
    ELSE LET d == self.data[2]
         IN [ent |-> [self EXCEPT !.native = Get(d, "rawTAF"),
                                  !.attrs = Assign(TafFreshAttrs(self, d),
                                                   TafLateKeys(d), TafLateValue(d))],
             raised |-> FALSE]

UpdateState(self) ==
    IF self.feed = FEED_METAR THEN MetarUpdateState(self) ELSE TafUpdateState(self)

\* a variant that compares the identifiers without regard to letter case
RECURSIVE FirstMatchAnyCase(_, _, _)
FirstMatchAnyCase(data_list, code, i) ==
    IF i > Len(data_list) THEN 0
    ELSE IF /\ Tag(Get(data_list[i], "icaoId")) = "code"
            /\ Upper(Get(data_list[i], "icaoId")[2]) = Upper(code)
    THEN i
    ELSE FirstMatchAnyCase(data_list, code, i + 1)

\* a variant without the return in the loop: the last station object with
\* the code is the one kept
RECURSIVE LastMatchFrom(_, _, _)
LastMatchFrom(data_list, code, i) ==
    IF i > Len(data_list) THEN 0
    ELSE LET later == LastMatchFrom(data_list, code, i + 1)
         IN IF later > 0 THEN later
            ELSE IF Get(data_list[i], "icaoId") = CodeStr(code) THEN i
            ELSE 0

\* the first record of data_list whose icaoId equals the code, 0 if none
RECURSIVE FirstMatchFrom(_, _, _)
FirstMatchFrom(data_list, code, i) ==
    IF i > Len(data_list) THEN 0
    ELSE IF Get(data_list[i], "icaoId") = CodeStr(code) THEN i
    ELSE FirstMatchFrom(data_list, code, i + 1)

\* a variant that leaves _data alone when no station object matches
KeepUnmatchedData(self, data_list) ==
    LET i == FirstMatchFrom(data_list, self.icao, 1)
    IN IF i > 0 THEN Rec(data_list[i]) ELSE self.data

\* a variant that stores a station object only in a cell that holds none
KeepHeldRecord(self, data_list) ==
    LET i == FirstMatchFrom(data_list, self.icao, 1)
    IN IF ~IsNone(self.data) THEN self.data
       ELSE IF i > 0 THEN Rec(data_list[i]) ELSE None

\* the value _update_from_data_list stores in _data
MatchedData(self, data_list) ==
    LET i == FirstMatchFrom(data_list, self.icao, 1)
    IN IF i > 0 THEN Rec(data_list[i]) ELSE None

\* a variant that returns at once on an empty list
SkipEmptyList(self, data_list) ==
    IF data_list = <<>> THEN [ent |-> self, raised |-> FALSE]
    ELSE UpdateState([self EXCEPT !.data = MatchedData(self, data_list)])

\* a variant that stores the record and leaves the recomputation of the
\* state to a later moment
StoreWithoutUpdate(self, data_list) ==
    [ent |-> [self EXCEPT !.data = MatchedData(self, data_list)], raised |-> FALSE]

\* AvWeatherSensor._update_from_data_list
UpdateFromDataList(self, data_list) ==
    UpdateState([self EXCEPT !.data = MatchedData(self, data_list)])

\* AvWeatherSensor.available
Available(self) == ~IsNone(self.data)

\* AvWeatherSensor.__init__ followed by the subclass's own assignments
NewSensor(feed, entry, icao_code, initial_data) ==
    LET base == [icao |-> Upper(icao_code), feed |-> feed, entry |-> entry,
                 data |-> None, native |-> None, attrs |-> EmptyDict,
                 icon |-> "unset", platform |-> "none"]
        r == UpdateFromDataList(base, initial_data)
    IN [ent |-> [r.ent EXCEPT !.icon = IF feed = FEED_METAR THEN ICON_DEFAULT
                                       ELSE ICON_TAF],
        raised |-> r.raised]

\* ------------------------------------------------- provider responses
\* station objects the provider can return
MetarA1 ==
    [icaoId |-> CodeStr(NZAA), rawOb |-> Str("NZAA 092300Z 24008KT"),
     fltCat |-> Str("VFR"), reportTime |-> Str("2024-01-09 23:00:00"),
     temp |-> Num(18), wspd |-> Num(8), wdir |-> Num(240),
     clouds |-> List(<<Rec([cover |-> Str("FEW"), base |-> Num(2500)]),
                       Rec([cover |-> Str("BKN")])>>),
     wxString |-> Str("-RA"), lat |-> Num(-37), lon |-> Num(174), elev |-> Num(7)]
MetarA2 ==
    [icaoId |-> CodeStr(NZAA), rawOb |-> Str("NZAA 100000Z 00000KT"),
     fltCat |-> Str("LIFR"), temp |-> Num(0), lat |-> Num(-37)]
\* a station object whose clouds field is not a list
MetarA3 ==
    [icaoId |-> CodeStr(NZAA), rawOb |-> Str("NZAA 100100Z"),
     fltCat |-> Str("IFR"), reportTime |-> Str("2024-01-10T01:00:00Z"),
     clouds |-> Num(5), elev |-> Num(7)]
MetarW1 ==
    [icaoId |-> CodeStr(NZWN), rawOb |-> Str("NZWN 092300Z 36015KT"),
     fltCat |-> Str("MVFR"), reportTime |-> Str("9 Jan 23:00"), elev |-> Num(0)]
\* a station object whose identifier is spelled in lower case
MetarA4 ==
    [icaoId |-> CodeStr(nzaa), rawOb |-> Str("nzaa 100200Z 18004KT"),
     fltCat |-> Str("MVFR"), wxString |-> Str("BR")]
TafA1 ==
    [icaoId |-> CodeStr(NZAA), rawTAF |-> Str("TAF NZAA 092000Z"),
     issueTime |-> Str("2024-01-09 20:00:00"), validTimeFrom |-> Num(1704830400),
     validTimeTo |-> Str("later"), lat |-> Num(-37), lon |-> Num(174)]
TafW1 ==
    [icaoId |-> CodeStr(NZWN), rawTAF |-> Str("TAF NZWN 092000Z"),
     validTimeFrom |-> Num(0), elev |-> Num(12)]

MetarRecords == {MetarA1, MetarA2, MetarA3, MetarA4, MetarW1}
TafRecords == {TafA1, TafW1}
FeedRecords(feed) == IF feed = FEED_METAR THEN MetarRecords ELSE TafRecords

\* what one outbound GET can end in: a status with a decoded body, or an
\* exception raised inside the try block
StatusOutcome(status, body) == [status |-> status, exc |-> "none", body |-> body]
ExcOutcome(exc) == [status |-> 0, exc |-> exc, body |-> None]

ListBodies(feed) ==
    {List(<<>>)} \cup {List(<<Rec(a)>>) : a \in FeedRecords(feed)}
    \cup {List(<<Rec(a), Rec(b)>>) : a \in FeedRecords(feed), b \in FeedRecords(feed)}

FailureOutcomes ==
    {StatusOutcome(200, Rec([error |-> Str("bad")])),
     StatusOutcome(200, List(<<Str("x")>>)),
     StatusOutcome(204, None), StatusOutcome(400, Str("bad ids")),
     StatusOutcome(429, None), StatusOutcome(500, Str("oops")),
     ExcOutcome("TimeoutError"), ExcOutcome("ClientConnectorError"),
     ExcOutcome("ClientError"), ExcOutcome("ValueError")}

Outcomes(feed) ==
    {StatusOutcome(200, b) : b \in ListBodies(feed)} \cup FailureOutcomes

\* the smaller set of responses the whole-system specification draws from
SysBodies(feed) ==
    IF feed = FEED_METAR
    THEN {List(<<Rec(MetarA3)>>), List(<<Rec(MetarA1), Rec(MetarW1)>>)}
    ELSE {List(<<Rec(TafA1), Rec(TafW1)>>)}
SysOutcomes(feed) ==
    {StatusOutcome(200, b) : b \in SysBodies(feed)}
    \cup {StatusOutcome(204, None), ExcOutcome("TimeoutError")}

\* the responses to the initial fetches of a setup: the whole batch, a part
\* of it, a station object that makes the constructor raise, no content
SysSetupBodies(feed) ==
    IF feed = FEED_METAR
    THEN {List(<<Rec(MetarA1), Rec(MetarW1)>>), List(<<Rec(MetarA1)>>),
          List(<<Rec(MetarA3)>>)}
    ELSE {List(<<Rec(TafA1), Rec(TafW1)>>)}
SysSetupOutcomes(feed, feeds) ==
    IF feed \in feeds
    THEN {StatusOutcome(200, b) : b \in SysSetupBodies(feed)}
         \cup {StatusOutcome(204, None)}
    ELSE {StatusOutcome(0, None)}

\* ------------------------------------------------------------ api.py
\* the try block of _async_fetch_data: <<"return", list>> or <<"raise", exc>>
FetchTry(o) ==
    IF o.exc # "none" THEN <<"raise", o.exc>>
    ELSE IF o.status = 200
    THEN IF Tag(o.body) # "list" THEN <<"return", <<>>>>
         ELSE IF \E i \in DOMAIN o.body[2] : Tag(o.body[2][i]) # "rec"
         THEN <<"raise", "AttributeError">>      \* item.get on a non-dict
         ELSE <<"return", [i \in DOMAIN o.body[2] |-> o.body[2][i][2]]>>
    ELSE <<"return", <<>>>>                      \* 204, 400, 429, other

\* a variant without the final `except Exception` clause
NamedClausesOnly(exc) ==
    exc \in {"TimeoutError", "ClientConnectorError", "ClientError"}

\* the except clauses: TimeoutError, ClientConnectorError, ClientError, Exception
FetchCaught(exc) ==
    exc \in {"TimeoutError", "ClientConnectorError", "ClientError",
             "ValueError", "AttributeError"}

\* AviationWeatherApi._async_fetch_data: the list returned, or the exception
\* that leaves the call
AsyncFetchData(o) ==
    LET t == FetchTry(o)
    IN IF t[1] = "return" THEN [raised |-> "none", data |-> t[2]]
       ELSE IF FetchCaught(t[2]) THEN [raised |-> "none", data |-> <<>>]
       ELSE [raised |-> t[2], data |-> <<>>]

\* ------------------------------------------------------------- state
VARIABLES
    entries,    \* config entry id -> its data while it is loaded
    hassData,   \* hass.data[DOMAIN]: entry ids, "apis", "entities"
    service,    \* whether update_weather is registered
    ents,       \* the sensor objects
    rf,         \* the running update_weather handlers
    hist,       \* history: the provider exchanges of the step just taken
    flows       \* the import flows async_step_user started that have not run

vars == <<entries, hassData, service, ents, rf, hist, flows>>

EntryIds == 1..MaxEntries
EntIds == 1..MaxEnts
Slots == 1..MaxRefresh

\* no config entry under the id; an entry's unique id is None unless the
\* import step set one
NotLoaded == [loaded |-> FALSE, codes |-> <<>>, feeds |-> {}, uid |-> None]
FreeEnt ==
    [icao |-> <<>>, feed |-> "", entry |-> 0, data |-> None, native |-> None,
     attrs |-> EmptyDict, icon |-> "", platform |-> "free"]
IdleSlot ==
    [pc |-> "idle", icao |-> None, feed |-> None, todo |-> <<>>, idx |-> 0,
     calls |-> <<>>, notified |-> <<>>, errors |-> 0, result |-> ""]

\* hass.data without the DOMAIN key
NoDomain ==
    [present |-> FALSE, ids |-> {}, hasApis |-> FALSE, apis |-> {},
     hasEntities |-> FALSE, entities |-> <<>>]

\* the "entities" dict, in insertion order: a sequence of <<key, list>>
DictKeys(dict) == {dict[i][1] : i \in DOMAIN dict}
DictIndex(dict, k) == CHOOSE i \in DOMAIN dict : dict[i][1] = k
DictGet(dict, k) == dict[DictIndex(dict, k)][2]
DictAppendTo(dict, k, x) ==
    IF k \in DictKeys(dict)
    THEN [dict EXCEPT ![DictIndex(dict, k)] = <<k, Append(@[2], x)>>]
    ELSE Append(dict, <<k, <<x>>>>)
DictPop(dict, k) ==
    IF k \in DictKeys(dict)
    THEN SelectSeq(dict, LAMBDA kv : kv[1] # k)
    ELSE dict

RECURSIVE Concat(_)
Concat(ss) == IF ss = <<>> THEN <<>> ELSE Head(ss) \o Concat(Tail(ss))
DictValues(dict) == Concat([i \in DOMAIN dict |-> dict[i][2]])

SeqRange(q) == {q[i] : i \in DOMAIN q}

Init ==
    /\ entries = [e \in EntryIds |-> NotLoaded]
    /\ hassData = NoDomain
    /\ service = FALSE
    /\ ents = [i \in EntIds |-> FreeEnt]
    /\ rf = [r \in Slots |-> IdleSlot]
    /\ hist = <<>>
    /\ flows = {}

\* one exchange with the provider as the history keeps it: the request, what
\* it ended in, the list the client returned, the sensors the list was
\* applied to with the _data each held before, and whether the caller's
\* except clause ran
Exchange(op, feed, ids, o, res, targets, prev, error) ==
    [op |-> op, feed |-> feed, ids |-> ids, status |-> o.status, exc |-> o.exc,
     list |-> Tag(o.body) = "list", raised |-> res.raised, data |-> res.data,
     targets |-> targets, prev |-> prev, error |-> error]

\* --------------------------------------------------- entry setup
RECURSIVE SortedSeq(_)
SortedSeq(S) ==
    IF S = {} THEN <<>>
    ELSE LET m == CHOOSE x \in S : \A y \in S : x <= y
         IN <<m>> \o SortedSeq(S \ {m})

FreeIds(heap) == {i \in EntIds : heap[i].platform = "free"}

FeedOrder(feeds) == SelectSeq(<<FEED_METAR, FEED_TAF>>, LAMBDA f : f \in feeds)

\* the sensors the creation loop constructs, in order: per code, METAR then TAF
Plan(codes, feeds) ==
    Concat([i \in DOMAIN codes |->
               [j \in DOMAIN FeedOrder(feeds) |-> <<codes[i], FeedOrder(feeds)[j]>>]])

Built(e, plan, metar, taf) ==
    [k \in DOMAIN plan |->
        NewSensor(plan[k][2], e, plan[k][1],
                  IF plan[k][2] = FEED_METAR THEN metar ELSE taf)]

\* how many constructors complete before one raises
RECURSIVE CompletedFrom(_, _)
CompletedFrom(built, k) ==
    IF k > Len(built) \/ built[k].raised THEN k - 1
    ELSE CompletedFrom(built, k + 1)

RECURSIVE RegisterAll(_, _, _, _)
RegisterAll(dict, plan, ids, n) ==
    IF n = 0 THEN dict
    ELSE DictAppendTo(RegisterAll(dict, plan, ids, n - 1), plan[n][1], ids[n])

\* the initial fetches of sensor.async_setup_entry
InitialData(feed, feeds, o) ==
    IF feed \in feeds THEN AsyncFetchData(o).data ELSE <<>>

NoOutcome == StatusOutcome(0, None)

\* the sensors of one feed among the first n constructed
CreatedOf(feed, plan, ids, n) ==
    SelectSeq([k \in 1..n |-> ids[k]],
              LAMBDA i : \E k \in 1..n : ids[k] = i /\ plan[k][2] = feed)

SetupExchanges(codes, feeds, mo, to, plan, ids, n) ==
    (IF FEED_METAR \in feeds
     THEN <<Exchange("setup", FEED_METAR, codes, mo, AsyncFetchData(mo),
                     CreatedOf(FEED_METAR, plan, ids, n), <<>>, n < Len(plan))>>
     ELSE <<>>)
    \o (IF FEED_TAF \in feeds
        THEN <<Exchange("setup", FEED_TAF, codes, to, AsyncFetchData(to),
                        CreatedOf(FEED_TAF, plan, ids, n), <<>>, n < Len(plan))>>
        ELSE <<>>)

\* async_add_entities: the entity platform ignores an entity whose
\* _attr_unique_id (code and feed) an entity it holds already has
UniqueIdTaken(heap, ent) ==
    \E j \in EntIds :
       /\ heap[j].platform = "added"
       /\ heap[j].icao = ent.icao /\ heap[j].feed = ent.feed

\* __init__.async_setup_entry with sensor.async_setup_entry, which it awaits:
\* a constructor that raises ends the platform setup (the entity platform logs
\* it), with the sensors built so far registered but never added
SetupEntry(e, codes, feeds, mo, to, logging) ==
    /\ ~entries[e].loaded
    /\ LET plan == Plan(codes, feeds)
           built == Built(e, plan, InitialData(FEED_METAR, feeds, mo),
                          InitialData(FEED_TAF, feeds, to))
           n == CompletedFrom(built, 1)
           failed == n < Len(plan)
           ids == SortedSeq(FreeIds(ents))
       IN /\ Len(plan) <= Len(ids)
          /\ entries' = [entries EXCEPT ![e] =
                            [@ EXCEPT !.loaded = TRUE, !.codes = codes,
                                      !.feeds = feeds]]
          /\ ents' = [i \in EntIds |->
                         IF \E k \in 1..n : ids[k] = i
                         THEN LET k == CHOOSE k \in 1..n : ids[k] = i
                              IN [built[k].ent EXCEPT !.platform =
                                     IF failed \/ UniqueIdTaken(ents, built[k].ent)
                                     THEN "none" ELSE "added"]
                         ELSE ents[i]]
          /\ hassData' = [present |-> TRUE,
                          ids |-> hassData.ids \cup {e},
                          hasApis |-> TRUE,
                          apis |-> hassData.apis \cup {e},
                          hasEntities |-> TRUE,
                          entities |-> RegisterAll(hassData.entities, plan, ids, n)]
          /\ hist' = IF logging
                     THEN SetupExchanges(codes, feeds, mo, to, plan, ids, n)
                     ELSE <<>>
    /\ service' = TRUE
    /\ UNCHANGED <<rf, flows>>

\* objects nothing refers to any more leave the heap
Referenced(i, hd, slots) ==
    \/ i \in SeqRange(DictValues(hd.entities))
    \/ \E r \in Slots : i \in SeqRange(slots[r].todo)

Collect(heap, hd, slots) ==
    [i \in EntIds |->
        IF heap[i].platform \in {"none", "removed"} /\ ~Referenced(i, hd, slots)
        THEN FreeEnt ELSE heap[i]]

\* --------------------------------------------------- entry unload
RECURSIVE PopCodes(_, _)
PopCodes(dict, codes) ==
    IF codes = <<>> THEN dict
    ELSE PopCodes(DictPop(dict, Upper(Head(codes))), Tail(codes))

\* the dict left after hass.data[DOMAIN].pop(entry_id) and the entity cleanup;
\* the DOMAIN key itself goes only when that dict is empty
UnloadedData(hd, e, codes) ==
    LET d1 == [hd EXCEPT !.ids = @ \ {e},
                         !.entities = IF hd.hasEntities THEN PopCodes(@, codes) ELSE @]
    IN IF d1.ids = {} /\ ~d1.hasApis /\ ~d1.hasEntities THEN NoDomain ELSE d1

\* __init__.async_unload_entry (the platform unload succeeds and removes the
\* entry's entities from the entity platform); `after` is what the config
\* entries store holds under the id afterwards
Unload(e, after) ==
    /\ entries[e].loaded
    /\ LET hd == UnloadedData(hassData, e, entries[e].codes)
           removed == [i \in EntIds |->
                          IF ents[i].entry = e /\ ents[i].platform = "added"
                          THEN [ents[i] EXCEPT !.platform = "removed"]
                          ELSE ents[i]]
       IN /\ hassData' = hd
          /\ ents' = Collect(removed, hd, rf)
          /\ service' = IF hd.present THEN service ELSE FALSE
    /\ entries' = [entries EXCEPT ![e] = after]
    /\ hist' = <<>>
    /\ UNCHANGED <<rf, flows>>

\* the entry is unloaded because it is removed
UnloadEntry(e) == Unload(e, NotLoaded)

\* the entry is unloaded to be set up again (async_reload_entry)
UnloadForReload(e) == Unload(e, [entries[e] EXCEPT !.loaded = FALSE])

\* --------------------------------------------------- update_weather
\* a variant that ignores feed_type
NoFeedFilter(ent, feed_type) == TRUE

\* async_update_weather returns at once when a feed_type for the other class
\* is given
PassesFilter(ent, feed_type) ==
    ~(Truthy(feed_type) /\ feed_type # Str(ent.feed))

\* the next entity of the loop whose update suspends on a fetch
RECURSIVE NextIdx(_, _, _, _)
NextIdx(heap, todo, from, feed_type) ==
    IF from > Len(todo) THEN from
    ELSE IF PassesFilter(heap[todo[from]], feed_type) THEN from
    ELSE NextIdx(heap, todo, from + 1, feed_type)

\* one GET: the feed's endpoint and the ids parameter
Call(ent) == [feed |-> ent.feed, ids |-> <<ent.icao>>]

\* a variant that fetches a feed once per invocation: an entity whose feed
\* was already requested issues no GET of its own
ResumeBatched(slot, heap, from) ==
    LET j == NextIdx(heap, slot.todo, from, slot.feed)
    IN IF j > Len(slot.todo)
       THEN [slot EXCEPT !.pc = "done", !.idx = j]
       ELSE [slot EXCEPT !.pc = "fetching", !.idx = j,
                         !.calls =
                            IF \E k \in DOMAIN @ : @[k].feed = heap[slot.todo[j]].feed
                            THEN @ ELSE Append(@, Call(heap[slot.todo[j]]))]

\* the handler runs on from entity `from` until it suspends or the loop ends
Resume(slot, heap, from) ==
    LET j == NextIdx(heap, slot.todo, from, slot.feed)
    IN IF j > Len(slot.todo)
       THEN [slot EXCEPT !.pc = "done", !.idx = j]
       ELSE [slot EXCEPT !.pc = "fetching", !.idx = j,
                         !.calls = Append(@, Call(heap[slot.todo[j]]))]

\* a variant that looks the code up as it was given
RawInput(icao_code) == icao_code

\* icao_code as the handler holds it after icao_code.upper()
UpperInput(icao_code) ==
    IF Truthy(icao_code) THEN CodeStr(Upper(icao_code[2])) ELSE icao_code

\* the entities the handler resolves, or why it returns early
Resolve(hd, icao_code) ==
    IF ~hd.hasEntities THEN [result |-> "no_entities", todo |-> <<>>]
    ELSE IF Truthy(icao_code)
    THEN IF UpperInput(icao_code)[2] \in DictKeys(hd.entities)
         THEN [result |-> "ok",
               todo |-> DictGet(hd.entities, UpperInput(icao_code)[2])]
         ELSE [result |-> "unknown_icao", todo |-> <<>>]
    ELSE [result |-> "ok", todo |-> DictValues(hd.entities)]

IcaoInputs == {None, CodeStr(NZAA), CodeStr(nzaa), CodeStr(NZWN), CodeStr(ZZZZ)}
FeedInputs == {None, Str(FEED_METAR), Str(FEED_TAF)}

\* async_handle_update_weather up to its first suspension
CallService(r, icao_code, feed_type) ==
    /\ service
    /\ hassData.present
    /\ rf[r].pc = "idle"
    /\ LET res == Resolve(hassData, icao_code)
           slot == [IdleSlot EXCEPT !.icao = UpperInput(icao_code),
                                    !.feed = feed_type,
                                    !.todo = res.todo, !.result = res.result]
       IN rf' = [rf EXCEPT ![r] = Resume(slot, ents, 1)]
    /\ hist' = <<>>
    /\ UNCHANGED <<entries, hassData, service, ents, flows>>

\* async_write_ha_state: the state machine is written for an entity the
\* platform holds; an entity never added raises, a removed one is skipped
WriteRaises(ent) == ent.platform = "none"
\* a variant that also writes the state of an entity the platform removed
WritesDetached(ent) == ent.platform \in {"added", "removed"}

WritePublishes(ent) == ent.platform = "added"

\* whether the entity's update raised into the handler's except clause
UpdateError(fetchRaised, u) ==
    fetchRaised \/ u.raised \/ WriteRaises(u.ent)

\* a variant that writes the state in a finally clause, whether or not the
\* update raised
NotifyAlways(slot, i, fetchRaised, u) ==
    [slot EXCEPT
       !.notified = IF WritePublishes(u.ent) THEN Append(@, i) ELSE @,
       !.errors = IF UpdateError(fetchRaised, u) THEN @ + 1 ELSE @]

\* the slot after the entity's update ended
AfterUpdate(slot, i, fetchRaised, u) ==
    [slot EXCEPT
       !.notified = IF ~fetchRaised /\ ~u.raised /\ WritePublishes(u.ent)
                    THEN Append(@, i) ELSE @,
       !.errors = IF UpdateError(fetchRaised, u) THEN @ + 1 ELSE @]

\* a variant without the try/except around the entity's update: the first
\* exception ends the handler
StopOnError(slot, heap, from, error) ==
    IF error THEN [slot EXCEPT !.pc = "done", !.idx = from]
    ELSE Resume(slot, heap, from)

\* a variant that fetches again for an entity whose update raised
RetryOnError(slot, heap, from, error) ==
    Resume(slot, heap, IF error THEN from - 1 ELSE from)

\* the loop after one entity's update: the except clause logs an error and
\* the loop goes on with the next entity
HandlerNext(slot, heap, from, error) == Resume(slot, heap, from)

\* the awaited fetch of the current entity returns: the entity applies the
\* list and writes its state, and the handler goes on to the next entity
FetchReturn(r, o, logging) ==
    /\ rf[r].pc = "fetching"
    /\ LET i == rf[r].todo[rf[r].idx]
           res == AsyncFetchData(o)
           ok == res.raised = "none"
           u == UpdateFromDataList(ents[i], res.data)
           heap == IF ok THEN [ents EXCEPT ![i] = u.ent] ELSE ents
       IN /\ ents' = heap
          /\ rf' = [rf EXCEPT ![r] =
                       HandlerNext(AfterUpdate(rf[r], i, ~ok, u), heap,
                                   rf[r].idx + 1, UpdateError(~ok, u))]
          /\ hist' = IF logging
                     THEN <<Exchange("refresh", ents[i].feed, <<ents[i].icao>>, o,
                                     res, IF ok THEN <<i>> ELSE <<>>,
                                     IF ok THEN <<ents[i].data>> ELSE <<>>,
                                     UpdateError(~ok, u))>>
                     ELSE <<>>
    /\ UNCHANGED <<entries, hassData, service, flows>>

\* a variant in which a finished handler starts over on its list, as a
\* periodic trigger would
RetireRearms(r) ==
    /\ rf[r].pc = "done"
    /\ rf' = [rf EXCEPT ![r] =
                 Resume([IdleSlot EXCEPT !.icao = rf[r].icao, !.feed = rf[r].feed,
                                         !.todo = rf[r].todo, !.result = rf[r].result],
                        ents, 1)]
    /\ hist' = <<>>
    /\ UNCHANGED <<entries, hassData, service, ents, flows>>

\* the handler's task is gone
Retire(r) ==
    /\ rf[r].pc = "done"
    /\ rf' = [rf EXCEPT ![r] = IdleSlot]
    /\ ents' = Collect(ents, hassData, rf')
    /\ hist' = <<>>
    /\ UNCHANGED <<entries, hassData, service, flows>>

CodeLists == {<<NZAA>>, <<NZWN>>, <<NZAA, NZWN>>}
FeedLists == {{FEED_METAR}, {FEED_TAF}, {FEED_METAR, FEED_TAF}}

\* the feed whose endpoint the handler in slot r is waiting on
PendingFeed(r) ==
    IF rf[r].pc = "fetching" THEN ents[rf[r].todo[rf[r].idx]].feed ELSE FEED_METAR

\* the steps of the integration over the entries E and the handler slots S
SetupStep(E) ==
    \E e \in E, codes \in CodeLists, feeds \in FeedLists :
       \E mo \in SysSetupOutcomes(FEED_METAR, feeds),
          to \in SysSetupOutcomes(FEED_TAF, feeds) :
             SetupEntry(e, codes, feeds, mo, to, FALSE)
UnloadStep(E) == \E e \in E : UnloadEntry(e)
CallStep(S) ==
    \E r \in S, icao_code \in IcaoInputs, feed_type \in FeedInputs :
       CallService(r, icao_code, feed_type)
ReturnStep(S) ==
    \E r \in S : \E o \in SysOutcomes(PendingFeed(r)) : FetchReturn(r, o, FALSE)
RetireStep(S) == \E r \in S : Retire(r)

Next ==
    \/ SetupStep(1..SysEntries)
    \/ UnloadStep(1..SysEntries)
    \/ CallStep(1..SysSlots)
    \/ ReturnStep(1..SysSlots)
    \/ RetireStep(1..SysSlots)

\* The whole system: setups, unloads and service calls in any order, a
\* handler suspended on its fetch while entries come and go.
Spec == Init /\ [][Next]_vars

\* The whole system with the progress the code guarantees: a fetch returns
\* (the GET carries a 15 s total timeout) and a finished handler's task ends.
\* Nothing obliges anyone to call the service or to change the configuration.
SpecLive ==
    /\ Init /\ [][Next]_vars
    /\ WF_vars(ReturnStep(1..SysSlots))
    /\ WF_vars(RetireStep(1..SysSlots))

\* ------------------------------------------------------------------
\* The sensors under every response the provider model holds, with the
\* history of each exchange kept: one entry, one handler at a time, the entry
\* set up or unloaded only while no handler runs.
Quiet == \A r \in Slots : rf[r].pc = "idle"

CellSetup ==
    /\ Quiet
    /\ \E codes \in CodeLists, feeds \in FeedLists :
          \E mo \in (IF FEED_METAR \in feeds THEN Outcomes(FEED_METAR)
                     ELSE {NoOutcome}),
             to \in (IF FEED_TAF \in feeds THEN Outcomes(FEED_TAF)
                     ELSE {NoOutcome}) :
                SetupEntry(1, codes, feeds, mo, to, TRUE)
CellUnload == Quiet /\ UnloadEntry(1)
CellCall == \E feed_type \in FeedInputs : CallService(1, None, feed_type)
CellReturn == \E o \in Outcomes(PendingFeed(1)) : FetchReturn(1, o, TRUE)
CellRetire == Retire(1)

CellNext == CellSetup \/ CellUnload \/ CellCall \/ CellReturn \/ CellRetire

SpecCell == Init /\ [][CellNext]_vars

\* ------------------------------------------------------------------
\* Overlapping service calls: one entry with both feeds for one airport, and
\* up to MaxRefresh handlers that suspend on their fetches and resume in any
\* order; the history keeps the exchange of the step just taken.
RaceOutcomes(feed) ==
    IF feed = FEED_METAR
    THEN {StatusOutcome(200, List(<<Rec(MetarA1)>>)),
          StatusOutcome(200, List(<<Rec(MetarA2)>>)),
          StatusOutcome(200, List(<<Rec(MetarA3)>>)),
          StatusOutcome(204, None)}
    ELSE {StatusOutcome(200, List(<<Rec(TafA1)>>)), ExcOutcome("TimeoutError")}

\* setup of the entry, a service call on a free handler, the return of a
\* suspended handler's fetch, the end of a handler
RaceNext ==
    \/ \E mo \in {StatusOutcome(200, List(<<Rec(MetarA1)>>)), StatusOutcome(204, None)} :
          SetupEntry(1, <<NZAA>>, {FEED_METAR, FEED_TAF}, mo,
                     StatusOutcome(200, List(<<Rec(TafA1)>>)), TRUE)
    \/ \E r \in Slots, feed_type \in {None, Str(FEED_METAR)} :
          CallService(r, None, feed_type)
    \/ \E r \in Slots : \E o \in RaceOutcomes(PendingFeed(r)) : FetchReturn(r, o, TRUE)
    \/ \E r \in Slots : Retire(r)

SpecRace == Init /\ [][RaceNext]_vars

\* ------------------------------------------------------------------
\* An entry goes while a handler holds its entities: two entries, one airport
\* each, METAR only, set up and unloaded at any moment, and one handler whose
\* list was taken from the registry before; the history keeps the exchange of
\* the step just taken.
GoneCodes(e) == IF e = 1 THEN <<NZAA>> ELSE <<NZWN>>

GoneOutcomes ==
    {StatusOutcome(200, List(<<Rec(MetarA2)>>)),
     StatusOutcome(200, List(<<Rec(MetarA3)>>)),
     ExcOutcome("TimeoutError")}

GoneNext ==
    \/ \E e \in EntryIds :
          SetupEntry(e, GoneCodes(e), {FEED_METAR},
                     StatusOutcome(200, List(<<Rec(MetarA1), Rec(MetarW1)>>)),
                     NoOutcome, TRUE)
    \/ \E e \in EntryIds : UnloadEntry(e)
    \/ CallService(1, None, None)
    \/ \E o \in GoneOutcomes : FetchReturn(1, o, TRUE)
    \/ Retire(1)

SpecGone == Init /\ [][GoneNext]_vars

\* ------------------------------------------------------------------
\* A handler under every kind of fetch outcome: one entry of two airports and
\* both feeds, set up and unloaded at any moment, one handler; with the
\* progress the code guarantees: the awaited GET ends, with a response or by
\* its 15 s total timeout, and a finished handler's task ends.
TermOutcomes(feed) ==
    {StatusOutcome(200, IF feed = FEED_METAR THEN List(<<Rec(MetarA3)>>)
                        ELSE List(<<Rec(TafA1), Rec(TafW1)>>)),
     StatusOutcome(204, None), StatusOutcome(429, None), StatusOutcome(500, None),
     ExcOutcome("TimeoutError"), ExcOutcome("ClientConnectorError")}

TermSetup ==
    SetupEntry(1, <<NZAA, NZWN>>, {FEED_METAR, FEED_TAF},
               StatusOutcome(200, List(<<Rec(MetarA1), Rec(MetarW1)>>)),
               StatusOutcome(204, None), FALSE)
TermCall == \E icao_code \in {None, CodeStr(NZWN)} : CallService(1, icao_code, None)
TermReturn == \E o \in TermOutcomes(PendingFeed(1)) : FetchReturn(1, o, FALSE)

TermNext == TermSetup \/ UnloadEntry(1) \/ TermCall \/ TermReturn \/ Retire(1)

SpecTerm ==
    /\ Init /\ [][TermNext]_vars
    /\ WF_vars(TermReturn)
    /\ WF_vars(Retire(1))

\* ------------------------------------------------------------------
\* Two requests for one cell, the earlier one answered with the older report:
\* one entry, a METAR refresh of NZAA per handler (one GET each), slot 2 called
\* only while the handler in slot 1 runs and slot 1 only while slot 2 is idle,
\* so that of two overlapping requests that of slot 1 was issued first; the
\* provider answers it with the 092300Z report or with no content, and the
\* later one with the 100000Z report or a station object whose update raises.
StaleOutcomes(r) ==
    IF r = 1
    THEN {StatusOutcome(200, List(<<Rec(MetarA1)>>)), StatusOutcome(204, None)}
    ELSE {StatusOutcome(200, List(<<Rec(MetarA2)>>)),
          StatusOutcome(200, List(<<Rec(MetarA3)>>))}

StaleNext ==
    \/ \E codes \in {<<NZAA>>, <<NZAA, NZWN>>}, feeds \in {{FEED_METAR}, {FEED_METAR, FEED_TAF}} :
          \E mo \in {StatusOutcome(200, List(<<Rec(MetarA1), Rec(MetarW1)>>)),
                      StatusOutcome(204, None)} :
             SetupEntry(1, codes, feeds, mo,
                        IF FEED_TAF \in feeds THEN StatusOutcome(200, List(<<Rec(TafA1)>>))
                        ELSE NoOutcome, TRUE)
    \/ \E r \in Slots :
          /\ (r = 1 /\ \A q \in Slots \ {1} : rf[q].pc = "idle")
             \/ (r # 1 /\ rf[1].pc = "fetching")
          /\ CallService(r, CodeStr(NZAA), Str(FEED_METAR))
    \/ \E r \in Slots : \E o \in StaleOutcomes(r) : FetchReturn(r, o, TRUE)
    \/ \E r \in Slots : Retire(r)

SpecStale == Init /\ [][StaleNext]_vars

\* ------------------------------------------------------------------
\* config_flow.py: entries come from the user step and the import step
KnownAirports == {NZAA, NZWN}

\* code.isalpha() for an upper-cased code of ASCII characters
IsAlpha(code) == \A i \in DOMAIN code : code[i] \in 65..90

\* str comparison of two codes of one length
CodeLess(a, b) ==
    \E i \in DOMAIN a : a[i] < b[i] /\ \A j \in 1..(i - 1) : a[j] = b[j]

\* sorted(list(set(codes)))
RECURSIVE SortedCodes(_)
SortedCodes(S) ==
    IF S = {} THEN <<>>
    ELSE LET m == CHOOSE x \in S : \A y \in S \ {x} : CodeLess(x, y)
         IN <<m>> \o SortedCodes(S \ {m})

\* validate_icao_codes: <<"ok", the codes>> or <<"invalid">> (vol.Invalid)
ValidateIcaoCodes(value) ==
    LET codes == [i \in DOMAIN value |-> Upper(value[i])]
    IN IF codes = <<>> THEN <<"invalid">>
       ELSE IF \E i \in DOMAIN codes :
                  \/ Len(codes[i]) # 4
                  \/ ~IsAlpha(codes[i])
                  \/ codes[i] \notin KnownAirports
       THEN <<"invalid">>
       ELSE <<"ok", SortedCodes(SeqRange(codes))>>

\* the ids no config entry has
FreeEntryIds == {e \in EntryIds : entries[e].codes = <<>>}

\* async_create_entry: the entry as the store holds it before its setup
NewEntry(code, feeds, uid) ==
    [loaded |-> FALSE, codes |-> <<code>>, feeds |-> feeds, uid |-> uid]

\* AvWeatherConfigFlow.async_step_user with a submitted form: an import flow
\* is started for every code after the first (the loop over the current
\* entries only logs: its `continue` continues that inner loop), and an entry
\* is created for the first code; no unique id is set
StepUser(value, feeds) ==
    LET v == ValidateIcaoCodes(value)
    IN IF v[1] # "ok"
       THEN UNCHANGED vars                       \* the form is shown again
       ELSE /\ FreeEntryIds # {}
            /\ LET e == CHOOSE x \in FreeEntryIds : \A y \in FreeEntryIds : x <= y
               IN entries' = [entries EXCEPT ![e] = NewEntry(v[2][1], feeds, None)]
            /\ flows' = flows \cup {[code |-> v[2][k], feeds |-> feeds] :
                                        k \in 2..Len(v[2])}
            /\ hist' = <<>>
            /\ UNCHANGED <<hassData, service, ents, rf>>

\* AvWeatherConfigFlow.async_step_import: aborts when an entry has the code
\* as its unique id, creates an entry with that unique id otherwise
StepImport(f) ==
    /\ f \in flows
    /\ flows' = flows \ {f}
    /\ IF \E e \in EntryIds : entries[e].uid = CodeStr(f.code)
       THEN UNCHANGED entries
       ELSE /\ FreeEntryIds # {}
            /\ LET e == CHOOSE x \in FreeEntryIds : \A y \in FreeEntryIds : x <= y
               IN entries' = [entries EXCEPT ![e] =
                                 NewEntry(f.code, f.feeds, CodeStr(f.code))]
    /\ hist' = <<>>
    /\ UNCHANGED <<hassData, service, ents, rf>>

UserInputs == {<<NZAA>>, <<nzaa>>, <<NZWN, NZAA>>, <<ZZZZ>>}

\* the responses to the initial fetches of an entry made by a flow
FlowOutcomes(feed, feeds) ==
    IF feed \in feeds
    THEN {StatusOutcome(200, b) : b \in SysBodies(feed)} \cup {StatusOutcome(204, None)}
    ELSE {NoOutcome}

FlowUser == \E value \in UserInputs, feeds \in FeedLists : StepUser(value, feeds)
FlowImport == \E f \in flows : StepImport(f)
\* Home Assistant sets up an entry the store holds
FlowSetup ==
    \E e \in EntryIds :
       /\ entries[e].codes # <<>>
       /\ \E mo \in FlowOutcomes(FEED_METAR, entries[e].feeds),
             to \in FlowOutcomes(FEED_TAF, entries[e].feeds) :
                SetupEntry(e, entries[e].codes, entries[e].feeds, mo, to, FALSE)
FlowRemove == \E e \in EntryIds : UnloadEntry(e)
FlowReload == \E e \in EntryIds : UnloadForReload(e)

FlowNext == FlowUser \/ FlowImport \/ FlowSetup \/ FlowRemove \/ FlowReload

\* Configuration only: form submissions, import flows, setups, reloads and
\* removals of up to MaxEntries entries, no service call.
SpecFlow == Init /\ [][FlowNext]_vars

\* ==================================================================
\* Properties
\* ==================================================================
\* whether the handler in `slot` was called for all airports and both feeds
RefreshAll(slot) == slot.result = "ok" /\ IsNone(slot.icao) /\ IsNone(slot.feed)

\* whether entity `ent` is in the target set the arguments of `slot` name
InTarget(slot, ent) ==
    /\ IsNone(slot.icao) \/ slot.icao = CodeStr(ent.icao)
    /\ IsNone(slot.feed) \/ slot.feed = Str(ent.feed)

LiveEnts == {i \in EntIds : ents[i].platform # "free"}
Exchanges == SeqRange(hist)

\* C1 as the specification states it: a finished refresh(ALL) has issued
\* exactly one fetch for each feed type that has a cell, however many airports
\* are registered.
C1_OneFetchPerFeedType ==
    \A r \in Slots :
       (rf[r].pc = "done" /\ RefreshAll(rf[r]) /\ rf[r].todo # <<>>) =>
          \A f \in Feeds :
             Cardinality({k \in DOMAIN rf[r].calls : rf[r].calls[k].feed = f})
                = IF \E k \in DOMAIN rf[r].todo : ents[rf[r].todo[k]].feed = f
                  THEN 1 ELSE 0

\* C1 (amended): a finished refresh(ALL) has issued exactly one fetch per
\* registered cell, in registry order, each for the feed of that cell and
\* carrying that cell's airport code alone; so a feed type is fetched once per
\* airport that has a cell of it, and once only when one airport is registered.
C1_OneFetchPerCell ==
    \A r \in Slots :
       (rf[r].pc = "done" /\ RefreshAll(rf[r])) =>
          /\ Len(rf[r].calls) = Len(rf[r].todo)
          /\ \A k \in DOMAIN rf[r].todo :
                rf[r].calls[k] = [feed |-> ents[rf[r].todo[k]].feed,
                                  ids |-> <<ents[rf[r].todo[k]].icao>>]
          /\ \A f \in Feeds :
                Cardinality({k \in DOMAIN rf[r].calls : rf[r].calls[k].feed = f})
                   = Cardinality({k \in DOMAIN rf[r].todo :
                                     ents[rf[r].todo[k]].feed = f})

\* a refresh(ALL) over two airports has finished: two fetches of one feed
\* type, one per airport
C1_TwoAirportsRefreshed ==
    \E r \in Slots :
       /\ rf[r].pc = "done" /\ RefreshAll(rf[r])
       /\ \E k1, k2 \in DOMAIN rf[r].calls :
             /\ rf[r].calls[k1].feed = rf[r].calls[k2].feed
             /\ rf[r].calls[k1].ids = <<NZAA>>
             /\ rf[r].calls[k2].ids = <<NZWN>>

\* the positions of list `data` whose station object carries the code of `ent`
Hits(data, ent) ==
    {k \in DOMAIN data : Get(data[k], "icaoId") = CodeStr(ent.icao)}

\* a cell without a record: unavailable, no attribute, no state value
Absent(ent) ==
    /\ ~Available(ent)
    /\ IsNone(ent.data)
    /\ ent.attrs = EmptyDict
    /\ ent.native = None

\* C2: after a list the provider returned was applied to the cells of one
\* request, every cell whose code the list lacks is absent, whatever it held
\* before, and every cell whose code the list carries holds the (first) station
\* object of that list with its code.
C2_PartialBatch ==
    \A x \in Exchanges :
       x.raised = "none" =>
          \A t \in DOMAIN x.targets :
             LET c == ents[x.targets[t]]
                 hits == Hits(x.data, c)
             IN IF hits = {}
                THEN Absent(c)
                ELSE /\ Available(c)
                     /\ \E k \in hits :
                           /\ \A j \in hits : k <= j
                           /\ c.data = Rec(x.data[k])

\* the initial fetch for two airports returned one station object: one cell
\* holds it, the other is absent
C2_OneOfTwoReturned ==
    \E x \in Exchanges :
       /\ x.op = "setup" /\ Len(x.ids) = 2 /\ Len(x.data) = 1
       /\ Len(x.targets) = 2
       /\ \E t1, t2 \in DOMAIN x.targets :
             /\ Absent(ents[x.targets[t1]])
             /\ ents[x.targets[t2]].data = Rec(x.data[1])

\* C3: every cell is available exactly when it holds a record; a cell without
\* one has no attribute and no state value; and the attributes and state value
\* of a cell that holds one are those of a new cell given that record alone,
\* so nothing of an earlier record is left in them.
C3_AttrsFromRecordAlone ==
    \A i \in LiveEnts :
       LET c == ents[i]
       IN /\ Tag(c.data) \in {"none", "rec"}
          /\ Available(c) <=> Tag(c.data) = "rec"
          /\ IsNone(c.data) => Absent(c)
          /\ Tag(c.data) = "rec" =>
                LET fresh == NewSensor(c.feed, c.entry, c.icao, <<c.data[2]>>).ent
                IN /\ fresh.data = c.data
                   /\ c.attrs = fresh.attrs
                   /\ c.native = fresh.native
                   /\ c.native = Get(c.data[2], IF c.feed = FEED_METAR
                                                THEN "rawOb" ELSE "rawTAF")

\* a cell that held a station object with weather, clouds and a position now
\* holds a later one without them, and none of those attributes is left
C3_LesserRecordApplied ==
    \E x \in Exchanges :
       /\ x.op = "refresh" /\ Len(x.targets) = 1
       /\ x.prev[1] = Rec(MetarA1)
       /\ ents[x.targets[1]].data = Rec(MetarA2)
       /\ DOMAIN ents[x.targets[1]].attrs = MetarBasicKeys

\* C4: applying a list without the cell's code leaves any cell absent, and
\* applying it again changes nothing: in every exchange that did so, and for
\* every state a cell can be in.
C4_AbsentResets ==
    /\ \A x \in Exchanges :
          \A t \in DOMAIN x.targets :
             (x.op = "refresh" /\ Hits(x.data, ents[x.targets[t]]) = {}) =>
                Absent(ents[x.targets[t]])
    /\ \A i \in LiveEnts :
          LET once == UpdateFromDataList(ents[i], <<>>)
              twice == UpdateFromDataList(once.ent, <<>>)
          IN /\ ~once.raised
             /\ Absent(once.ent)
             /\ twice = once

\* a cell that held a record was refreshed from a non-empty list without its
\* code, and is absent
C4_RecordThenAbsent ==
    \E x \in Exchanges :
       /\ x.op = "refresh" /\ Len(x.targets) = 1
       /\ x.data # <<>>
       /\ Tag(x.prev[1]) = "rec"
       /\ Absent(ents[x.targets[1]])

\* the lists a 200 response of the feed's endpoint can decode to
Batches(feed) ==
    {AsyncFetchData(StatusOutcome(200, b)).data : b \in ListBodies(feed)}

\* C5: from every state a cell can be in and for every list, applying the list
\* a second time gives the cell the first application gave: the same record,
\* state value, attributes and icon, and the same outcome.
C5_ApplyTwice ==
    \A i \in LiveEnts :
       \A b \in Batches(ents[i].feed) :
          LET once == UpdateFromDataList(ents[i], b)
              twice == UpdateFromDataList(once.ent, b)
          IN twice = once

\* a cell was refreshed from a list carrying the station object it already
\* held, clouds included
C5_SameRecordAgain ==
    \E x \in Exchanges :
       /\ x.op = "refresh" /\ Len(x.targets) = 1
       /\ x.prev[1] = Rec(MetarA1)
       /\ ents[x.targets[1]].data = Rec(MetarA1)
       /\ ents[x.targets[1]].attrs["cloud_coverage"][2] =
             <<CloudText(MetarA1.clouds[2][1][2]), CloudText(MetarA1.clouds[2][2][2])>>

\* C6: no exchange with the provider raised into the caller of the client,
\* and the list returned was non-empty only for a 200 response whose body was
\* a list.
C6_FetchNeverRaises ==
    \A x \in Exchanges :
       /\ x.raised = "none"
       /\ x.data # <<>> => (x.exc = "none" /\ x.status = 200 /\ x.list)
       /\ (x.exc # "none" \/ x.status # 200 \/ ~x.list) => x.data = <<>>

\* a GET ended in an exception none of the named clauses catches, and the
\* client returned the empty list
C6_UnexpectedException ==
    \E x \in Exchanges :
       /\ x.exc = "ValueError"
       /\ x.raised = "none" /\ x.data = <<>>

\* C7: a refresh whose fetch returned the empty list left the cell it was for
\* absent, and the handler's except clause did not run.
C7_EmptyResultMeansAbsent ==
    \A x \in Exchanges :
       (x.op = "refresh" /\ x.data = <<>>) =>
          /\ x.raised = "none"
          /\ ~x.error
          /\ Len(x.targets) = 1
          /\ \A t \in DOMAIN x.targets : Absent(ents[x.targets[t]])

\* a cell that held a record was refreshed by a fetch that ended in HTTP 204
C7_NoContentAfterRecord ==
    \E x \in Exchanges :
       /\ x.op = "refresh" /\ x.status = 204 /\ x.exc = "none"
       /\ Len(x.targets) = 1
       /\ Tag(x.prev[1]) = "rec"
       /\ Absent(ents[x.targets[1]])

\* C8: a finished invocation has issued the fetch of every cell of its
\* resolved list that its feed_type admits, whatever the updates before it
\* ended in: an empty result or an exception in one update ends that update
\* only.
C8_FailureIsolation ==
    \A r \in Slots :
       (rf[r].pc = "done" /\ rf[r].result = "ok") =>
          /\ rf[r].idx = Len(rf[r].todo) + 1
          /\ Len(rf[r].calls) =
                Cardinality({k \in DOMAIN rf[r].todo :
                                IsNone(rf[r].feed)
                                   \/ rf[r].feed = Str(ents[rf[r].todo[k]].feed)})
          /\ rf[r].errors + Len(rf[r].notified) <= Len(rf[r].calls)

\* an invocation has finished in which the update of the first cell raised
\* on a malformed station object and the last cell was then fetched, applied
\* and written
C8_ErrorThenSuccess ==
    \E r \in Slots :
       /\ rf[r].pc = "done" /\ rf[r].result = "ok"
       /\ Len(rf[r].todo) >= 2
       /\ rf[r].errors >= 1
       /\ ents[rf[r].todo[1]].data = Rec(MetarA3)
       /\ rf[r].todo[Len(rf[r].todo)] \in SeqRange(rf[r].notified)
       /\ Available(ents[rf[r].todo[Len(rf[r].todo)]])

\* C9: a call that names an airport starts on exactly the cells registered
\* under the upper-cased code; when none is registered under it the handler
\* is finished at once, having issued no fetch and changed no cell, registry
\* or entry.
C9_UnknownAirport ==
    [][\A r \in Slots :
          (rf[r].pc = "idle" /\ rf'[r].pc # "idle" /\ Truthy(rf'[r].icao)) =>
             IF Upper(rf'[r].icao[2]) \in DictKeys(hassData.entities)
             THEN /\ rf'[r].result = "ok"
                  /\ rf'[r].todo =
                        DictGet(hassData.entities, Upper(rf'[r].icao[2]))
             ELSE /\ rf'[r].result = "unknown_icao"
                  /\ rf'[r].pc = "done"
                  /\ rf'[r].todo = <<>>
                  /\ rf'[r].calls = <<>>
                  /\ rf'[r].notified = <<>>
                  /\ rf'[r].errors = 0
                  /\ ents' = ents
                  /\ hassData' = hassData
                  /\ entries' = entries]_vars

\* a call for an airport without cells has returned while cells of another
\* airport are registered
C9_UnknownWhileOthersRegistered ==
    \E r \in Slots :
       /\ rf[r].pc = "done" /\ rf[r].result = "unknown_icao"
       /\ rf[r].icao = CodeStr(ZZZZ)
       /\ rf[r].calls = <<>>
       /\ \E i \in LiveEnts : ents[i].platform = "added" /\ Available(ents[i])

\* C10: a step changes the record, state value, attributes or icon of a cell
\* only when a handler whose arguments admit that cell is awaiting the cell's
\* fetch; and every fetch a handler has issued and every state write it has
\* caused is for a cell its arguments admit.
C10_RefreshFrame ==
    [][/\ \A i \in EntIds :
             (/\ ents[i].platform # "free"
              /\ ents'[i].platform # "free"
              /\ <<ents'[i].data, ents'[i].native, ents'[i].attrs, ents'[i].icon>>
                    # <<ents[i].data, ents[i].native, ents[i].attrs, ents[i].icon>>)
             => \E r \in Slots :
                   /\ rf[r].pc = "fetching"
                   /\ rf[r].todo[rf[r].idx] = i
                   /\ InTarget(rf[r], ents[i])
       /\ \A r \in Slots :
             /\ \A k \in DOMAIN rf'[r].calls :
                   /\ Len(rf'[r].calls[k].ids) = 1
                   /\ IsNone(rf'[r].icao)
                         \/ rf'[r].icao = CodeStr(rf'[r].calls[k].ids[1])
                   /\ IsNone(rf'[r].feed)
                         \/ rf'[r].feed = Str(rf'[r].calls[k].feed)
             /\ \A k \in DOMAIN rf'[r].notified :
                   InTarget(rf'[r], ents'[rf'[r].notified[k]])]_vars

\* a refresh of one airport and one feed type has finished and written its
\* cell while a cell of another airport and a cell of the other feed type are
\* registered
C10_NarrowRefreshDone ==
    \E r \in Slots :
       /\ rf[r].pc = "done"
       /\ Truthy(rf[r].icao) /\ Truthy(rf[r].feed)
       /\ rf[r].notified # <<>>
       /\ \E i, j \in LiveEnts :
             /\ ents[i].platform = "added" /\ ents[j].platform = "added"
             /\ CodeStr(ents[i].icao) # rf[r].icao
             /\ CodeStr(ents[j].icao) = rf[r].icao
             /\ Str(ents[j].feed) # rf[r].feed

\* the positions of list `data` whose station object carries the code of `ent`
\* in any letter case
HitsAnyCase(data, ent) ==
    {k \in DOMAIN data :
        /\ Tag(Get(data[k], "icaoId")) = "code"
        /\ Upper(Get(data[k], "icaoId")[2]) = Upper(ent.icao)}

\* C11 as the specification states it: after a list was applied, a cell whose
\* code the list carries in any letter case is available and holds the first
\* such station object.
C11_CaseInsensitiveMatch ==
    \A x \in Exchanges :
       x.raised = "none" =>
          \A t \in DOMAIN x.targets :
             LET c == ents[x.targets[t]]
                 hits == HitsAnyCase(x.data, c)
             IN hits # {} =>
                   /\ Available(c)
                   /\ \E k \in hits : (\A j \in hits : k <= j) /\ c.data = Rec(x.data[k])

\* C11 (amended): a station object is matched to a cell only when its icaoId
\* equals the cell's upper-case code letter for letter: the record of every
\* available cell carries exactly that code, and a cell refreshed from a list
\* that carries its code in another letter case only is absent.
C11_ExactMatchOnly ==
    /\ \A i \in LiveEnts :
          Available(ents[i]) =>
             Get(ents[i].data[2], "icaoId") = CodeStr(Upper(ents[i].icao))
    /\ \A x \in Exchanges :
          x.raised = "none" =>
             \A t \in DOMAIN x.targets :
                LET c == ents[x.targets[t]]
                IN (HitsAnyCase(x.data, c) # {} /\ Hits(x.data, c) = {}) => Absent(c)

\* a cell that held a record was refreshed from a list whose only station
\* object spells the cell's code in lower case, and is absent
C11_LowerCaseRecordDropped ==
    \E x \in Exchanges :
       /\ x.op = "refresh" /\ Len(x.targets) = 1
       /\ x.data = <<MetarA4>>
       /\ ents[x.targets[1]].icao = NZAA
       /\ Tag(x.prev[1]) = "rec"
       /\ Absent(ents[x.targets[1]])

\* the cells the registry holds
Registered == SeqRange(DictValues(hassData.entities))

\* C12: the registry never holds two cells of one airport and one feed type,
\* and no two config entries hold the same airport code.
C12_NoDuplicateCells ==
    /\ \A i, j \in Registered :
          i # j => <<ents[i].icao, ents[i].feed>> # <<ents[j].icao, ents[j].feed>>
    /\ \A e1, e2 \in EntryIds :
          e1 # e2 => SeqRange(entries[e1].codes) \cap SeqRange(entries[e2].codes) = {}

\* two loaded entries made by the user step hold the same airport, and the
\* registry lists two cells of that airport and one feed type
C12_SameAirportTwice ==
    \E e1, e2 \in EntryIds :
       /\ e1 # e2
       /\ entries[e1].loaded /\ entries[e2].loaded
       /\ entries[e1].codes = <<NZAA>> /\ entries[e2].codes = <<NZAA>>
       /\ \E i, j \in Registered :
             /\ i # j
             /\ ents[i].entry = e1 /\ ents[j].entry = e2
             /\ ents[i].icao = NZAA /\ ents[j].icao = NZAA
             /\ ents[i].feed = ents[j].feed

\* a handler is suspended on the fetch of cell i
AwaitingFetch(i) ==
    \E r \in Slots : rf[r].pc = "fetching" /\ rf[r].todo[rf[r].idx] = i

\* what a cell shows: record, state value, attributes, icon
Content(ent) == <<ent.data, ent.native, ent.attrs, ent.icon>>

\* C13 as the specification states it: without anyone being obliged to call
\* the service, every cell the platform holds is eventually fetched again (or
\* removed).
C13_EventuallyRefetched ==
    \A i \in EntIds :
       [](ents[i].platform = "added" =>
             <>(ents[i].platform # "added" \/ AwaitingFetch(i)))

\* C13 (amended): the integration has no trigger of its own. While no
\* update_weather handler runs, a step is a setup or unload of an entry or a
\* service call, and it changes no existing cell; a handler starts only as the
\* registered service, and a finished handler fetches nothing more.
C13_RefetchOnlyOnRequest ==
    [][/\ Quiet =>
             /\ \A i \in EntIds :
                   (ents[i].platform # "free" /\ ents'[i].platform # "free")
                      => Content(ents'[i]) = Content(ents[i])
             /\ Quiet' => entries' # entries
       /\ \A r \in Slots :
             /\ (rf[r].pc = "idle" /\ rf'[r].pc # "idle") =>
                   (service /\ hassData.present /\ ents' = ents /\ entries' = entries)
             /\ rf[r].pc = "done" => rf'[r].pc \in {"done", "idle"}
             /\ rf[r].pc = "done" => rf'[r].calls = rf[r].calls \/ rf'[r].pc = "idle"]_vars

\* cells are registered and hold records, the service is registered, and no
\* handler runs
C13_RegisteredAndQuiet ==
    /\ Quiet
    /\ service
    /\ \E i \in Registered : ents[i].platform = "added" /\ Available(ents[i])
    /\ \E i \in Registered : ents[i].platform = "added" /\ ~Available(ents[i])

\* a new cell of the class, entry and code of `ent`, before any list is applied
Blank(ent) ==
    [ent EXCEPT !.data = None, !.native = None, !.attrs = EmptyDict]

\* the handlers that have cell i on their list and have not finished
Touching(i) ==
    {r \in Slots : rf[r].pc = "fetching" /\ i \in SeqRange(rf[r].todo)}

\* C14: with handlers overlapping on a cell, every state of the cell is that
\* of one application of one list: its record, state value and attributes are
\* what a new cell gets from its record alone; a step changes a cell only by
\* applying, whole, the list one handler's fetch returned to the cell that
\* handler awaited; so after the handlers have finished the cell is as the
\* application that ran last left it.
C14_AppliesSerialize ==
    [][\A i \in EntIds :
          (ents[i].platform # "free" /\ ents'[i].platform # "free") =>
             /\ LET c == ents'[i]
                    alone == UpdateState([Blank(c) EXCEPT !.data = c.data]).ent
                IN /\ c.native = alone.native
                   /\ c.attrs = alone.attrs
                   /\ Available(c) = Available(alone)
             /\ Content(ents'[i]) # Content(ents[i]) =>
                   /\ Len(hist') = 1
                   /\ hist'[1].op = "refresh" /\ hist'[1].targets = <<i>>
                   /\ \E r \in Touching(i) :
                         /\ rf[r].todo[rf[r].idx] = i
                         /\ rf'[r].idx > rf[r].idx
                   /\ LET whole == UpdateFromDataList(Blank(ents[i]), hist'[1].data).ent
                      IN /\ ents'[i].data = whole.data
                         /\ ents'[i].native = whole.native
                         /\ ents'[i].attrs = whole.attrs
                   /\ \A j \in EntIds \ {i} : ents'[j] = ents[j]]_vars

\* two handlers have the same cell on their lists and neither has ended; the
\* cell held the record one fetch returned, and the step just taken applied
\* the other fetch's different record, which the cell now holds
C14_SecondApplyWins ==
    /\ Len(hist) = 1
    /\ hist[1].op = "refresh" /\ Len(hist[1].targets) = 1
    /\ hist[1].prev = <<Rec(MetarA2)>>
    /\ ents[hist[1].targets[1]].data = Rec(MetarA1)
    /\ rf[1].calls # <<>> /\ rf[2].calls # <<>>
    /\ rf[1].pc # "idle" /\ rf[2].pc # "idle"
    /\ hist[1].targets[1] \in SeqRange(rf[1].todo) \cap SeqRange(rf[2].todo)

\* the exchange of the step just taken is a fetch a handler awaited for cell
\* i, returned without raising, and the entry of i was unloaded before
LateFor(i, h, heap) ==
    /\ Len(h) = 1
    /\ h[1].op = "refresh" /\ h[1].targets = <<i>>
    /\ heap[i].platform = "removed"

\* C15 as stated: once its entry is unloaded, no field of a cell changes any
\* more.
C15_LateResultDiscarded ==
    [][\A i \in EntIds :
          (ents[i].platform = "removed" /\ ents'[i].platform = "removed")
             => Content(ents'[i]) = Content(ents[i])]_vars

\* C15: a fetch that returns after the entry was unloaded is still applied
\* to the entity object the handler holds, whole, as to a registered one, but
\* the state machine is not written (the cell is not among those the handler
\* published), every cell the platform holds stays as it was, the handler
\* counts no error for the write and goes on to the next cell of its list or
\* ends.
C15_LateResultUnpublished ==
    [][\A i \in EntIds :
          LateFor(i, hist', ents) =>
             /\ ents'[i] = UpdateFromDataList(ents[i], hist'[1].data).ent
             /\ ents'[i].platform = "removed"
             /\ rf'[1].notified = rf[1].notified
             /\ \A j \in EntIds : ents[j].platform = "added" => ents'[j] = ents[j]
             /\ rf'[1].errors - rf[1].errors
                   = (IF UpdateFromDataList(ents[i], hist'[1].data).raised THEN 1 ELSE 0)
             /\ \/ rf'[1].pc = "done"
                \/ rf'[1].pc = "fetching" /\ rf'[1].idx > rf[1].idx
             /\ UNCHANGED <<entries, hassData, service>>]_vars

\* the entry of the NZAA cell was unloaded while the handler awaited its
\* fetch; the fetch then returned a record the cell did not hold, which the
\* detached cell now holds, while the other entry's cell is registered
C15_AppliedAfterUnload ==
    \E i \in EntIds :
       /\ LateFor(i, hist, ents)
       /\ ~entries[1].loaded /\ entries[2].loaded
       /\ ents[i].entry = 1
       /\ ents[i].data = Rec(MetarA2)
       /\ hist[1].prev = <<Rec(MetarA1)>>
       /\ \E j \in EntIds : ents[j].entry = 2 /\ ents[j].platform = "added"

\* the cells the registry lists that entry e made
CellsOf(e) == {i \in Registered : ents[i].entry = e}

\* C16: the unload of an entry takes out of the registry the cells that entry
\* registered and no other: afterwards none of its codes is a key of the
\* registry, and the registry lists every cell of the other entries as
\* before, each unchanged.
C16_UnloadRemovesOwnCells ==
    [][\A e \in EntryIds :
          (entries[e].loaded /\ ~entries'[e].loaded) =>
             /\ \A k \in DOMAIN entries[e].codes :
                   Upper(entries[e].codes[k]) \notin DictKeys(hassData'.entities)
             /\ SeqRange(DictValues(hassData'.entities)) = Registered \ CellsOf(e)
             /\ \A i \in Registered \ CellsOf(e) : ents'[i] = ents[i]]_vars

\* an entry is loaded and the platform holds a cell of it, which the registry
\* no longer lists: the service finds no cell for that airport
C16_LoadedCellUnregistered ==
    \E i \in EntIds :
       /\ ents[i].platform = "added"
       /\ entries[ents[i].entry].loaded
       /\ i \notin Registered
       /\ Resolve(hassData, CodeStr(ents[i].icao)).result = "unknown_icao"

\* C17: a handler that awaits a fetch reaches its end, whatever the fetches
\* return and whatever happens to the entries meanwhile; it never issues more
\* fetches than its list has cells, and its position in the list only grows.
C17_RefreshTerminates ==
    /\ \A r \in Slots : (rf[r].pc = "fetching") ~> (rf[r].pc = "done")
    /\ [](\A r \in Slots : Len(rf[r].calls) <= Len(rf[r].todo))
    /\ [][\A r \in Slots :
             (rf[r].pc = "fetching" /\ rf'[r] # rf[r]) =>
                \/ rf'[r].pc = "done"
                \/ rf'[r].pc = "fetching" /\ rf'[r].idx > rf[r].idx]_vars

\* a handler has ended after a fetch for every cell of a list of two or more,
\* one of whose updates raised
C17_EndedAfterErrors ==
    \E r \in Slots :
       /\ rf[r].pc = "done"
       /\ Len(rf[r].todo) >= 2
       /\ Len(rf[r].calls) = Len(rf[r].todo)
       /\ rf[r].errors >= 1
       /\ Len(rf[r].notified) >= 1

\* the values fltCat is given below: the four categories, two other strings,
\* JSON null; and a station object with fltCat set to v, or without the field
Categories ==
    {Str("VFR"), Str("MVFR"), Str("IFR"), Str("LIFR"), Str("vfr"), Str(""), None}
WithCat(d, v) ==
    [k \in DOMAIN d \cup {"fltCat"} |-> IF k = "fltCat" THEN v ELSE d[k]]
WithoutCat(d) == [k \in DOMAIN d \ {"fltCat"} |-> d[k]]
Variants(d) == {WithCat(d, v) : v \in Categories} \cup {WithoutCat(d)}

\* C18: after a METAR station object was applied, the icon is the one the
\* four-way mapping gives its fltCat (the default one for any other value or
\* none) and the state value is its rawOb; and with fltCat replaced by any
\* other value or left out, the application differs in the icon and in the
\* flight_category attribute only: availability, state value, every other
\* attribute and the outcome are the same.
C18_IconFromCategoryOnly ==
    /\ \A x \in Exchanges :
          \A t \in DOMAIN x.targets :
             LET c == ents[x.targets[t]]
             IN (x.op = "refresh" /\ c.feed = FEED_METAR /\ Tag(c.data) = "rec") =>
                   /\ c.native = Get(c.data[2], "rawOb")
                   /\ c.icon = CASE Get(c.data[2], "fltCat") = Str("VFR") -> "mdi:weather-sunny"
                                 [] Get(c.data[2], "fltCat") = Str("MVFR") -> "mdi:weather-partly-cloudy"
                                 [] Get(c.data[2], "fltCat") = Str("IFR") -> "mdi:weather-cloudy"
                                 [] Get(c.data[2], "fltCat") = Str("LIFR") -> "mdi:weather-fog"
                                 [] OTHER -> "mdi:weather-partly-cloudy"
    /\ \A i \in LiveEnts :
          ents[i].feed = FEED_METAR =>
             \A d \in {m \in MetarRecords : m.icaoId = CodeStr(ents[i].icao)} :
                \A dv \in Variants(d) :
                   LET base == UpdateFromDataList(ents[i], <<d>>)
                       alt == UpdateFromDataList(ents[i], <<dv>>)
                       cat == Get(dv, "fltCat")
                   IN /\ alt.ent.icon =
                            (CASE cat = Str("VFR") -> "mdi:weather-sunny"
                               [] cat = Str("MVFR") -> "mdi:weather-partly-cloudy"
                               [] cat = Str("IFR") -> "mdi:weather-cloudy"
                               [] cat = Str("LIFR") -> "mdi:weather-fog"
                               [] OTHER -> "mdi:weather-partly-cloudy")
                      /\ alt.ent.native = Get(d, "rawOb")
                      /\ alt.ent.native = base.ent.native
                      /\ Available(alt.ent) /\ Available(base.ent)
                      /\ alt.raised = base.raised
                      /\ DOMAIN alt.ent.attrs = DOMAIN base.ent.attrs
                      /\ \A k \in DOMAIN base.ent.attrs \ {"flight_category"} :
                            alt.ent.attrs[k] = base.ent.attrs[k]
                      /\ alt.ent.attrs["flight_category"] = cat

\* a cell that held a VFR station object was refreshed with a LIFR one and
\* shows the fog icon and the new raw report
C18_CategoryChanged ==
    \E x \in Exchanges :
       /\ x.op = "refresh" /\ Len(x.targets) = 1
       /\ x.prev = <<Rec(MetarA1)>> /\ MetarA1.fltCat = Str("VFR")
       /\ ents[x.targets[1]].data = Rec(MetarA2)
       /\ ents[x.targets[1]].icon = "mdi:weather-fog"
       /\ ents[x.targets[1]].native = MetarA2.rawOb

\* the step just taken was the setup of the entry
JustSetUp == hist # <<>> /\ \A x \in Exchanges : x.op = "setup"

\* the cells the platform holds for airport `code` and feed type `feed`
CellsFor(code, feed) ==
    {i \in EntIds : /\ ents[i].platform = "added"
                    /\ ents[i].icao = code /\ ents[i].feed = feed}

\* C19: a setup issues one fetch for each configured feed type and no other,
\* each for all codes of the entry at once, and leaves exactly one cell per
\* configured airport and configured feed type, listed in the registry, which
\* holds the first station object of its code in that feed's list, or none.
C19_SetupCreatesAllCells ==
    JustSetUp =>
       /\ Len(hist) = Cardinality(entries[1].feeds)
       /\ {hist[k].feed : k \in DOMAIN hist} = entries[1].feeds
       /\ \A x \in Exchanges : x.ids = entries[1].codes
       /\ \A x \in Exchanges :
             \A k \in DOMAIN entries[1].codes :
                LET code == entries[1].codes[k]
                IN /\ Cardinality(CellsFor(code, x.feed)) = 1
                   /\ \A i \in CellsFor(code, x.feed) :
                         /\ i \in Registered
                         /\ ents[i].data =
                               (IF Hits(x.data, ents[i]) = {} THEN None
                                ELSE Rec(x.data[CHOOSE h \in Hits(x.data, ents[i]) :
                                                   \A g \in Hits(x.data, ents[i]) : h <= g]))
       /\ \A i \in LiveEnts :
             /\ ents[i].platform = "added"
             /\ ents[i].feed \in entries[1].feeds
             /\ ents[i].icao \in SeqRange(entries[1].codes)

\* the entry of two airports and both feeds was set up with a METAR list whose
\* NZAA station object made the first constructor raise: the entry is loaded
\* and the platform holds no cell
C19_SetupWithoutCells ==
    /\ JustSetUp
    /\ entries[1].loaded
    /\ entries[1].codes = <<NZAA, NZWN>>
    /\ entries[1].feeds = {FEED_METAR, FEED_TAF}
    /\ \E x \in Exchanges : x.feed = FEED_METAR /\ x.error /\ x.data = <<MetarA3>>
    /\ \A i \in EntIds : ents[i].platform # "added"

\* C20: the update_weather service is registered, and hass.data holds the
\* domain's dict, exactly while some entry is loaded; with every entry
\* unloaded both are gone.
C20_ServiceWhileLoaded ==
    LET some == \E e \in EntryIds : entries[e].loaded
    IN /\ service <=> some
       /\ hassData.present <=> some

\* every entry that was set up has been unloaded, and the service is still
\* registered over a domain dict that keeps the "entities" key and the API
\* client of an unloaded entry
C20_ServiceOutlivesEntries ==
    /\ \A e \in EntryIds : ~entries[e].loaded
    /\ service
    /\ hassData.present /\ hassData.ids = {}
    /\ hassData.hasEntities /\ hassData.entities = <<>>
    /\ hassData.hasApis /\ hassData.apis # {}

\* the icon the four-way mapping gives a cell's record, the default one for a
\* cell without a record
MappedIcon(data) ==
    IF Tag(data) # "rec" THEN "mdi:weather-partly-cloudy"
    ELSE CASE Get(data[2], "fltCat") = Str("VFR") -> "mdi:weather-sunny"
           [] Get(data[2], "fltCat") = Str("MVFR") -> "mdi:weather-partly-cloudy"
           [] Get(data[2], "fltCat") = Str("IFR") -> "mdi:weather-cloudy"
           [] Get(data[2], "fltCat") = Str("LIFR") -> "mdi:weather-fog"
           [] OTHER -> "mdi:weather-partly-cloudy"

\* C21: in every state every METAR cell, a newly created one included, shows
\* the icon the mapping gives the record it holds; and a cell created from a
\* list shows the icon a cell shows after the same list is applied to it.
C21_IconFollowsRecord ==
    \A i \in LiveEnts :
       ents[i].feed = FEED_METAR =>
          /\ ents[i].icon = MappedIcon(ents[i].data)
          /\ \A b \in Batches(FEED_METAR) :
                NewSensor(FEED_METAR, ents[i].entry, ents[i].icao, b).ent.icon
                   = UpdateFromDataList(ents[i], b).ent.icon

\* the setup just created the NZAA METAR cell from a VFR station object: the
\* platform holds the cell with that record, and its icon is the default one
C21_CreatedWithDefaultIcon ==
    /\ JustSetUp
    /\ \E i \in EntIds :
          /\ ents[i].platform = "added"
          /\ ents[i].feed = FEED_METAR
          /\ ents[i].data = Rec(MetarA1)
          /\ MetarA1.fltCat = Str("VFR")
          /\ ents[i].icon = ICON_DEFAULT
          /\ UpdateFromDataList(ents[i], <<MetarA1>>).ent.icon = "mdi:weather-sunny"

\* the handlers in slots 1 and 2 overlapped, both have ended, and both
\* published cell i
BothEnded(i) ==
    /\ rf[1].pc = "done" /\ rf[2].pc = "done"
    /\ rf[1].notified = <<i>> /\ rf[2].notified = <<i>>

\* C22 as stated: once two overlapping refreshes of a cell have both ended,
\* the cell holds what the request issued later fetched.
C22_LaterRequestWins ==
    \A i \in EntIds : BothEnded(i) => ents[i].data = Rec(MetarA2)

\* C22: what a fetch returns is applied when it returns, whichever request
\* was issued first: the cell then holds the first station object of its code
\* in that list, or none, and is published, whatever another handler applied
\* to it before.
C22_LastArrivalWins ==
    [][\A r \in Slots, i \in EntIds :
          (/\ rf[r].pc = "fetching" /\ rf'[r].pc = "done"
           /\ rf[r].todo[rf[r].idx] = i
           /\ Len(hist') = 1 /\ hist'[1].targets = <<i>>) =>
             /\ ents'[i].data =
                   (IF Hits(hist'[1].data, ents[i]) = {} THEN None
                    ELSE Rec(hist'[1].data[CHOOSE h \in Hits(hist'[1].data, ents[i]) :
                                \A g \in Hits(hist'[1].data, ents[i]) : h <= g]))
             /\ ~hist'[1].error => rf'[r].notified = Append(rf[r].notified, i)]_vars

\* the later request returned first and its 100000Z report was applied; the
\* earlier request then returned the 092300Z report, which the cell now holds
\* with both handlers ended
C22_OlderReportLast ==
    \E i \in EntIds :
       /\ BothEnded(i)
       /\ Len(hist) = 1 /\ hist[1].op = "refresh" /\ hist[1].targets = <<i>>
       /\ hist[1].prev = <<Rec(MetarA2)>>
       /\ hist[1].data = <<MetarA1>>
       /\ ents[i].data = Rec(MetarA1)

\* the handler's awaited fetch for cell i returns in this step
Returns(i) ==
    /\ rf[1].pc = "fetching"
    /\ rf[1].todo[rf[1].idx] = i
    /\ rf'[1] # rf[1]

\* C23 as stated: every fetch a handler awaited for a cell is followed by
\* one notification for that cell.
C23_AlwaysNotified ==
    [][\A i \in EntIds :
          Returns(i) => rf'[1].notified = Append(rf[1].notified, i)]_vars

\* C23: when the fetch a handler awaited for a cell returns, the list is
\* applied to the cell once and no further fetch is issued for it; the cell
\* is then notified once, after its state value and attributes were
\* recomputed in full, also when it is left without a record, provided the
\* recomputation did not raise and the platform holds the cell; otherwise it
\* is not notified. A notification is recorded in no other step.
C23_NotifiedAfterFullApply ==
    [][/\ \A i \in EntIds :
             Returns(i) =>
                LET u == UpdateFromDataList(ents[i], hist'[1].data)
                    c == ents'[i]
                    alone == UpdateState([Blank(c) EXCEPT !.data = c.data])
                IN /\ Len(hist') = 1 /\ hist'[1].targets = <<i>>
                   /\ c = u.ent
                   /\ \A k \in DOMAIN rf'[1].calls :
                         k > Len(rf[1].calls) => rf'[1].todo[rf'[1].idx] # i
                   /\ Len(rf'[1].calls) <= Len(rf[1].calls) + 1
                   /\ IF ~u.raised /\ ents[i].platform = "added"
                      THEN /\ rf'[1].notified = Append(rf[1].notified, i)
                           /\ ~alone.raised
                           /\ c.native = alone.ent.native
                           /\ c.attrs = alone.ent.attrs
                      ELSE rf'[1].notified = rf[1].notified
       /\ (\A i \in EntIds : ~Returns(i)) =>
             rf'[1].notified \in {rf[1].notified, <<>>}]_vars

\* one handler refreshed two cells: the fetch for the NZAA cell returned a
\* station object whose clouds are not a list, the update raised and the cell
\* was not notified; the fetch for the NZWN cell returned no station object of
\* its code, and the cell was left without a record and notified
C23_AbsentNotifiedRaisedNot ==
    \E i, j \in EntIds :
       /\ rf[1].todo = <<i, j>>
       /\ rf[1].pc = "done"
       /\ rf[1].errors = 1
       /\ rf[1].notified = <<j>>
       /\ ents[i].platform = "added" /\ ents[j].platform = "added"
       /\ ents[i].data = Rec(MetarA3)
       /\ Absent(ents[j])
       /\ Len(hist) = 1 /\ hist[1].targets = <<j>> /\ hist[1].prev = <<Rec(MetarW1)>>

\* C24: a cell given a list with several station objects of its code is as
\* after the first of them alone, whatever follows it in the list; and a cell
\* given any list is as after the same list without the station objects of
\* other codes: in every exchange that applied such a list, and for every
\* cell and every list the provider can return.
C24_FirstOfSeveralTaken ==
    /\ \A x \in Exchanges :
          \A t \in DOMAIN x.targets :
             LET c == ents[x.targets[t]]
                 hits == Hits(x.data, c)
             IN Cardinality(hits) >= 2 =>
                   \A k \in hits :
                      (\A j \in hits : k <= j) =>
                         /\ c.data = Rec(x.data[k])
                         /\ \A j \in hits \ {k} :
                               x.data[j] # x.data[k] => c.data # Rec(x.data[j])
    /\ \A i \in LiveEnts :
          \A b \in Batches(ents[i].feed) :
             LET own == SelectSeq(b, LAMBDA d : Get(d, "icaoId") = CodeStr(ents[i].icao))
                 whole == UpdateFromDataList(ents[i], b)
             IN /\ whole = UpdateFromDataList(ents[i], own)
                /\ own # <<>> => whole = UpdateFromDataList(ents[i], <<own[1]>>)

\* a cell that held the 092300Z report was refreshed from a list with the
\* 100000Z report first and the 092300Z report second, both of its code, and
\* holds the 100000Z report
C24_TwoOfOneCode ==
    \E x \in Exchanges :
       /\ x.op = "refresh" /\ Len(x.targets) = 1
       /\ x.data = <<MetarA2, MetarA1>>
       /\ x.prev = <<Rec(MetarA1)>>
       /\ ents[x.targets[1]].icao = NZAA
       /\ ents[x.targets[1]].data = Rec(MetarA2)

====
